---------------------------- MODULE Spec2Model ----------------------------
(***************************************************************************)
(* ConwayBets: the prediction-market ledger (linera/src/state.rs), the     *)
(* contract entry points that load it, run operations on it and store it   *)
(* (linera/src/contract.rs), and the query root of the service             *)
(* (linera/src/service.rs).                                                *)
(*                                                                         *)
(* Option<T> is modelled as a sequence: <<>> is None, <<v>> is Some(v).    *)
(* A BTreeMap is a function whose DOMAIN is its key set; iteration order   *)
(* is computed from the key order where the code depends on it.            *)
(***************************************************************************)
EXTENDS Integers, Sequences, FiniteSets, TLC

\* ------------------------------------------------------------------ bounds

\* Markets in the ledgers the paging queries are asked about.
MaxListed == 3
\* The largest limit and offset given to a paging query.
MaxPage == 3
\* create_market is offered while next_market_id is below this.
MaxMarketId == 2
\* place_bet is offered while fewer than this many positions are recorded.
MaxPositions == 2
\* Operations executed on one loaded instance (between load and store).
MaxCalls == 3

\* ------------------------------------------------------------------ inputs

\* Arguments of Operation::CreateMarket.
MarketArgs ==
    { [creator |-> 1, title |-> "T", description |-> "D", end_time |-> 1000,
       outcomes |-> <<"Yes", "No">>],
      [creator |-> 2, title |-> "U", description |-> "", end_time |-> 0,
       outcomes |-> <<>>] }

\* (user, outcome_index, amount) arguments of Operation::PlaceBet: an
\* ordinary stake, and a zero stake on an index no outcome list reaches.
BetArgs == { [user |-> 1, outcome_index |-> 0, amount |-> 100],
            [user |-> 2, outcome_index |-> 5, amount |-> 0] }

\* ------------------------------------------------------------- definitions

\* ChainId([0; 4].into()): the chain id the context stub reports.
context_chain_id == 0

MarketId(chain_id, id) == [chain_id |-> chain_id, id |-> id]

\* MarketId arguments of Operation::PlaceBet: the first two ids that
\* create_market assigns on the stub chain, and one id of a different chain.
MarketIdArgs ==
    { MarketId(context_chain_id, 1), MarketId(context_chain_id, 2),
      MarketId(context_chain_id + 1, 1) }

\* The fields compared in the other order: id first, then chain_id.
MarketIdLess_id_first(a, b) ==
    \/ a.id < b.id
    \/ a.id = b.id /\ a.chain_id < b.chain_id

\* derive(PartialOrd, Ord) on MarketId: lexicographic on (chain_id, id).
MarketIdLess(a, b) ==
    \/ a.chain_id < b.chain_id
    \/ a.chain_id = b.chain_id /\ a.id < b.id

\* The keys of a BTreeMap<MarketId, _> in iteration (ascending) order.
RECURSIVE MarketKeys(_)
MarketKeys(S) ==
    IF S = {} THEN <<>>
    ELSE LET lo == CHOOSE x \in S : \A y \in S \ {x} : MarketIdLess(x, y)
         IN  <<lo>> \o MarketKeys(S \ {lo})

\* The keys of a BTreeMap<AccountOwner, _> in iteration (ascending) order.
RECURSIVE OwnerKeys(_)
OwnerKeys(S) ==
    IF S = {} THEN <<>>
    ELSE LET lo == CHOOSE x \in S : \A y \in S : x <= y
         IN  <<lo>> \o OwnerKeys(S \ {lo})

\* [0; 32]
ZeroHash == [i \in 1..32 |-> 0]

\* ConwayBets::default(): empty maps, both counters 0.
EmptyMap == [k \in {} |-> <<>>]

DefaultLedger ==
    [markets |-> EmptyMap, user_positions |-> EmptyMap,
     next_market_id |-> 0, next_bet_id |-> 0]

\* BTreeMap::insert: adds the key or replaces the value stored under it.
BTreeInsert(map, k, v) ==
    [x \in DOMAIN map \cup {k} |-> IF x = k THEN v ELSE map[x]]

\* ------------------------------------------------- state.rs: the operations

\* A digest that depends on the market: every byte is the id's integer.
initialize_market_state_by_id(market_id) == [i \in 1..32 |-> market_id.id]

\* initialize_market_state: the stubbed digest.
initialize_market_state(market_id) == ZeroHash

\* A fund lock that refuses an empty stake.
lock_funds_rejects_zero(user, amount) == [ok |-> amount > 0]

\* lock_funds: the stub always returns Ok(()).
lock_funds(user, amount) == [ok |-> TRUE]

\* ConwayBetsMessage::Initialize, ::Bet(BetMessage), ::SyncState{..}
InitializeMsg == [type |-> "Initialize"]

BetMsg(market_id, user, outcome_index, amount) ==
    [type |-> "Bet", market_id |-> market_id, user |-> user,
     outcome_index |-> outcome_index, amount |-> amount]

SyncStateMsg(market_id, state_hash, block_height) ==
    [type |-> "SyncState", market_id |-> market_id, state_hash |-> state_hash,
     block_height |-> block_height]

\* One call of send_message(dest, msg). The helper is a placeholder that
\* delivers nothing; the model records the call itself.
Sent(dest, msg) == [dest |-> dest, msg |-> msg]

\* The draft of lib.rs: the id comes from Market::new (always 0) and the
\* counter is not advanced.
create_market_draft(self, creator, title, description, end_time, outcomes) ==
    LET market_id == MarketId(context_chain_id, 0)
        market == [id |-> market_id, creator |-> creator, title |-> title,
                   description |-> description, end_time |-> end_time,
                   outcomes |-> outcomes, total_liquidity |-> 0,
                   is_resolved |-> FALSE, winning_outcome |-> <<>>,
                   state_hash |-> initialize_market_state(market_id)]
    IN  [state |-> [self EXCEPT !.markets = BTreeInsert(@, market_id, market)],
         sent |-> <<Sent(market_id.chain_id, InitializeMsg)>>,
         market_id |-> market_id]

\* The market built with its first outcome already declared the winner.
create_market_settled(self, creator, title, description, end_time, outcomes) ==
    LET next_market_id == self.next_market_id + 1
        market_id == MarketId(context_chain_id, next_market_id)
        market == [id |-> market_id, creator |-> creator, title |-> title,
                   description |-> description, end_time |-> end_time,
                   outcomes |-> outcomes, total_liquidity |-> 0,
                   is_resolved |-> FALSE, winning_outcome |-> <<0>>,
                   state_hash |-> initialize_market_state(market_id)]
    IN  [state |-> [self EXCEPT !.next_market_id = next_market_id,
                                !.markets = BTreeInsert(@, market_id, market)],
         sent |-> <<Sent(market_id.chain_id, InitializeMsg)>>,
         market_id |-> market_id]

\* The counter advanced a second time after the id has been taken.
create_market_counts_twice(self, creator, title, description, end_time, outcomes) ==
    LET next_market_id == self.next_market_id + 1
        market_id == MarketId(context_chain_id, next_market_id)
        market == [id |-> market_id, creator |-> creator, title |-> title,
                   description |-> description, end_time |-> end_time,
                   outcomes |-> outcomes, total_liquidity |-> 0,
                   is_resolved |-> FALSE, winning_outcome |-> <<>>,
                   state_hash |-> initialize_market_state(market_id)]
    IN  [state |-> [self EXCEPT !.next_market_id = next_market_id + 1,
                                !.markets = BTreeInsert(@, market_id, market)],
         sent |-> <<Sent(market_id.chain_id, InitializeMsg)>>,
         market_id |-> market_id]

\* A market without outcomes refused after its id has been taken.
create_market_validated(self, creator, title, description, end_time, outcomes) ==
    LET next_market_id == self.next_market_id + 1
        market_id == MarketId(context_chain_id, next_market_id)
        market == [id |-> market_id, creator |-> creator, title |-> title,
                   description |-> description, end_time |-> end_time,
                   outcomes |-> outcomes, total_liquidity |-> 0,
                   is_resolved |-> FALSE, winning_outcome |-> <<>>,
                   state_hash |-> initialize_market_state(market_id)]
    IN  IF outcomes = <<>>
        THEN [state |-> [self EXCEPT !.next_market_id = next_market_id],
              sent |-> <<>>, market_id |-> market_id]
        ELSE [state |-> [self EXCEPT !.next_market_id = next_market_id,
                                     !.markets = BTreeInsert(@, market_id, market)],
              sent |-> <<Sent(market_id.chain_id, InitializeMsg)>>,
              market_id |-> market_id]

\* ConwayBets::create_market. Returns the ledger after the call, the
\* send_message calls it made in order, and the MarketId it assigned.
create_market(self, creator, title, description, end_time, outcomes) ==
    LET next_market_id == self.next_market_id + 1
        market_id == MarketId(context_chain_id, next_market_id)
        state_hash == initialize_market_state(market_id)
        market == [id |-> market_id, creator |-> creator, title |-> title,
                   description |-> description, end_time |-> end_time,
                   outcomes |-> outcomes, total_liquidity |-> 0,
                   is_resolved |-> FALSE, winning_outcome |-> <<>>,
                   state_hash |-> state_hash]
    IN  [state |-> [self EXCEPT !.next_market_id = next_market_id,
                                !.markets = BTreeInsert(@, market_id, market)],
         sent |-> <<Sent(market_id.chain_id, InitializeMsg)>>,
         market_id |-> market_id]

UserPosition(market_id, outcome_index, amount, state_hash) ==
    [market_id |-> market_id, outcome_index |-> outcome_index,
     amount |-> amount, state_hash |-> state_hash]

\* The lookup defaulted instead of failing: unwrap_or_default().
get_state_hash_or_default(markets, market_id) ==
    IF market_id \in DOMAIN markets THEN <<markets[market_id].state_hash>>
    ELSE <<ZeroHash>>

\* self.markets.get(&market_id) ... .state_hash, before ok_or is applied.
get_state_hash(markets, market_id) ==
    IF market_id \in DOMAIN markets THEN <<markets[market_id].state_hash>>
    ELSE <<>>

\* The push skipped when an equal position is already recorded.
push_position_dedup(user_positions, user, position) ==
    LET old == IF user \in DOMAIN user_positions THEN user_positions[user]
               ELSE <<>>
    IN  IF \E i \in 1..Len(old) : old[i] = position
        THEN BTreeInsert(user_positions, user, old)
        ELSE BTreeInsert(user_positions, user, Append(old, position))

\* insert(user, vec![position]) instead of entry().or_insert().push().
push_position_overwrite(user_positions, user, position) ==
    BTreeInsert(user_positions, user, <<position>>)

\* self.user_positions.entry(user).or_insert(Vec::new()).push(position)
push_position(user_positions, user, position) ==
    LET old == IF user \in DOMAIN user_positions THEN user_positions[user]
               ELSE <<>>
    IN  BTreeInsert(user_positions, user, Append(old, position))

Receipt(id, status) == [id |-> id, status |-> status]

\* The receipt built before the counter is advanced.
next_receipt_stale(next_bet_id) ==
    [next_bet_id |-> next_bet_id + 1,
     receipt |-> Receipt(next_bet_id, "Finalized")]

\* self.next_bet_id += 1; Receipt::new(self.next_bet_id, Status::Finalized)
next_receipt(next_bet_id) ==
    [next_bet_id |-> next_bet_id + 1,
     receipt |-> Receipt(next_bet_id + 1, "Finalized")]

Ok(receipt) == [ok |-> TRUE, receipt |-> receipt]
Err(e) == [ok |-> FALSE, err |-> e]

\* The position recorded and the id taken before the market is looked up.
place_bet_eager(self, market_id, user, outcome_index, amount) ==
    LET found == get_state_hash(self.markets, market_id)
        hash == IF found = <<>> THEN ZeroHash ELSE found[1]
        position == UserPosition(market_id, outcome_index, amount, hash)
        r == next_receipt(self.next_bet_id)
        after == [self EXCEPT
                    !.user_positions = push_position(@, user, position),
                    !.next_bet_id = r.next_bet_id]
    IN  IF found = <<>>
        THEN [state |-> after, sent |-> <<>>, result |-> Err("MarketNotFound")]
        ELSE [state |-> after,
              sent |-> <<Sent(market_id.chain_id,
                              BetMsg(market_id, user, outcome_index, amount))>>,
              result |-> Ok(r.receipt)]

\* The stake also added to the total_liquidity of the market bet on.
place_bet_adds_liquidity(self, market_id, user, outcome_index, amount) ==
    LET found == get_state_hash(self.markets, market_id)
    IN  IF found = <<>>
        THEN [state |-> self, sent |-> <<>>, result |-> Err("MarketNotFound")]
        ELSE
        LET position == UserPosition(market_id, outcome_index, amount,
                                     found[1])
            r == next_receipt(self.next_bet_id)
        IN  [state |-> [self EXCEPT
                          !.markets[market_id].total_liquidity = @ + amount,
                          !.user_positions = push_position(@, user, position),
                          !.next_bet_id = r.next_bet_id],
             sent |-> <<Sent(market_id.chain_id,
                             BetMsg(market_id, user, outcome_index, amount))>>,
             result |-> Ok(r.receipt)]

\* ConwayBets::place_bet. Returns the ledger after the call, the
\* send_message calls it made in order, and the Result it returned.
place_bet(self, market_id, user, outcome_index, amount) ==
    LET found == get_state_hash(self.markets, market_id)
    IN  IF found = <<>>
        THEN [state |-> self, sent |-> <<>>, result |-> Err("MarketNotFound")]
        ELSE
        LET state_hash == found[1]
            locked == lock_funds(user, amount)
        IN  IF ~locked.ok
            THEN [state |-> self, sent |-> <<>>, result |-> Err("lock_funds")]
            ELSE
            LET bet_message == BetMsg(market_id, user, outcome_index, amount)
                position == UserPosition(market_id, outcome_index, amount,
                                         state_hash)
                r == next_receipt(self.next_bet_id)
            IN  [state |-> [self EXCEPT
                              !.user_positions = push_position(@, user, position),
                              !.next_bet_id = r.next_bet_id],
                 sent |-> <<Sent(market_id.chain_id, bet_message)>>,
                 result |-> Ok(r.receipt)]

\* ------------------------------------- contract.rs: the operation dispatch

\* The value of type Response = () that execute_operation returns.
Unit == [unit |-> TRUE]

\* The Result of place_bet handed on to the caller.
return_result(result) == result

\* `let _ = self.state.place_bet(..).await;`: the Result is dropped and the
\* arm evaluates to ().
discard_result(result) == Unit

\* ------------------------------------- contract.rs: persistence of the state

\* const STATE_KEY: &[u8] = b"conway_bets_state"
STATE_KEY == "conway_bets_state"

\* A map as serde writes it: the sequence of its (key, value) pairs in the
\* map's iteration order.
MarketEntries(markets) ==
    LET keys == MarketKeys(DOMAIN markets)
    IN  [i \in 1..Len(keys) |-> <<keys[i], markets[keys[i]]>>]

OwnerEntries(user_positions) ==
    LET keys == OwnerKeys(DOMAIN user_positions)
    IN  [i \in 1..Len(keys) |-> <<keys[i], user_positions[keys[i]]>>]

\* A map as serde reads it: the pairs inserted one after another, a later
\* pair replacing an earlier one under the same key.
FromEntries(entries) ==
    [k \in { entries[i][1] : i \in 1..Len(entries) } |->
        LET last == CHOOSE i \in 1..Len(entries) :
                        /\ entries[i][1] = k
                        /\ \A j \in (i + 1)..Len(entries) : entries[j][1] # k
        IN  entries[last][2]]

\* user_positions marked #[serde(skip)] as well: nothing of it is written.
to_bytes_skip_positions(self) ==
    [markets |-> MarketEntries(self.markets), user_positions |-> <<>>]

\* Only the entry of the greatest account written: the position lists of
\* the other accounts are dropped at store.
to_bytes_last_owner(self) ==
    LET entries == OwnerEntries(self.user_positions)
    IN  [markets |-> MarketEntries(self.markets),
         user_positions |-> IF entries = <<>> THEN <<>>
                            ELSE <<entries[Len(entries)]>>]

\* bcs::to_bytes(&self.state): the fields of ConwayBets in declaration order,
\* without the two #[serde(skip)] counters.
to_bytes(self) ==
    [markets |-> MarketEntries(self.markets),
     user_positions |-> OwnerEntries(self.user_positions)]

\* The counter restored from what is stored: the number of stored markets.
from_bytes_restore_counter(bytes) ==
    [markets |-> FromEntries(bytes.markets),
     user_positions |-> FromEntries(bytes.user_positions),
     next_market_id |-> Len(bytes.markets),
     next_bet_id |-> 0]

\* The bet counter restored from what is stored: the number of owners with
\* stored positions.
from_bytes_restore_bet_counter(bytes) ==
    [markets |-> FromEntries(bytes.markets),
     user_positions |-> FromEntries(bytes.user_positions),
     next_market_id |-> 0,
     next_bet_id |-> Len(bytes.user_positions)]

\* bcs::from_bytes(&bytes): the skipped counters take their Default, 0.
from_bytes(bytes) ==
    [markets |-> FromEntries(bytes.markets),
     user_positions |-> FromEntries(bytes.user_positions),
     next_market_id |-> 0,
     next_bet_id |-> 0]

\* Stored bytes that are not the serialization of a ConwayBets.
MalformedBytes == [garbage |-> TRUE]

\* bcs::from_bytes(&bytes) as a Result: Ok(state) for bytes to_bytes can
\* have written, Err otherwise.
try_from_bytes(bytes) ==
    IF DOMAIN bytes = {"markets", "user_positions"}
    THEN [ok |-> TRUE, value |-> from_bytes(bytes)]
    ELSE [ok |-> FALSE, err |-> "deserialize"]

\* runtime.key_value_store().read_value_bytes(key)
read_value_bytes(store, key) ==
    IF key \in DOMAIN store THEN <<store[key]>> ELSE <<>>

\* ConwayBetsContract::load: the state of the instance it returns.
load(store) ==
    LET state_bytes == read_value_bytes(store, STATE_KEY)
    IN  IF state_bytes # <<>> THEN from_bytes(state_bytes[1])
        ELSE DefaultLedger

\* ConwayBetsContract::load, .expect("Failed to deserialize state"): whether
\* the call panics instead of returning an instance.
load_panics(store) ==
    LET state_bytes == read_value_bytes(store, STATE_KEY)
    IN  state_bytes # <<>> /\ ~try_from_bytes(state_bytes[1]).ok

\* The batch written under a key of its own, not under STATE_KEY.
store_batch_other_key(store, self) ==
    [k \in DOMAIN store \cup {"state"} |->
        IF k = "state" THEN to_bytes(self) ELSE store[k]]

\* ConwayBetsContract::store: the key-value store after the batch
\* [Put{STATE_KEY, bytes}] is written.
store_batch(store, self) ==
    [k \in DOMAIN store \cup {STATE_KEY} |->
        IF k = STATE_KEY THEN to_bytes(self) ELSE store[k]]

\* --------------------------------------------- service.rs: the query root

Digits == <<"0", "1", "2", "3", "4", "5", "6", "7", "8", "9">>

\* u64::to_string: the decimal digits, most significant first.
RECURSIVE to_string(_)
to_string(n) ==
    IF n < 10 THEN <<Digits[n + 1]>>
    ELSE to_string(n \div 10) \o <<Digits[(n % 10) + 1]>>

HexDigits == <<"0", "1", "2", "3", "4", "5", "6", "7", "8", "9",
               "a", "b", "c", "d", "e", "f">>

\* format!("{:02X}", b) of one byte: the digits in upper case.
hex_byte_upper(b) ==
    LET upper == <<"0", "1", "2", "3", "4", "5", "6", "7", "8", "9",
                   "A", "B", "C", "D", "E", "F">>
    IN  <<upper[(b \div 16) + 1], upper[(b % 16) + 1]>>

\* format!("{:02x}", b) of one byte.
hex_byte(b) == <<HexDigits[(b \div 16) + 1], HexDigits[(b % 16) + 1]>>

\* state_hash.iter().map(|b| format!("{:02x}", b)).collect()
RECURSIVE hex_string(_)
hex_string(bytes) ==
    IF bytes = <<>> THEN <<>>
    ELSE hex_byte(Head(bytes)) \o hex_string(Tail(bytes))

\* impl From<&Market> for MarketGql. Strings built by to_string are
\* sequences of characters; creator and total_liquidity are rendered by the
\* SDK's Display, modelled as the decimal rendering of the value.
MarketGql_from(m) ==
    [id |-> to_string(m.id.id),
     title |-> m.title,
     description |-> m.description,
     creator |-> to_string(m.creator),
     end_time |-> m.end_time,
     outcomes |-> m.outcomes,
     total_liquidity |-> to_string(m.total_liquidity),
     is_resolved |-> m.is_resolved,
     winning_outcome |-> m.winning_outcome,
     state_hash |-> hex_string(m.state_hash),
     created_at |-> 0]

\* Option::unwrap_or
unwrap_or(opt, default) == IF opt = <<>> THEN default ELSE opt[1]

\* self.state.markets.values(): the markets in ascending key order.
values(markets) ==
    LET keys == MarketKeys(DOMAIN markets)
    IN  [i \in 1..Len(keys) |-> markets[keys[i]]]

\* The adapters in the other order: take(limit).skip(offset).
take_skip(seq, offset, limit) ==
    LET hi == IF limit < Len(seq) THEN limit ELSE Len(seq)
    IN  [i \in 1..(IF hi > offset THEN hi - offset ELSE 0) |-> seq[offset + i]]

\* Iterator::skip(offset).take(limit)
skip_take(seq, offset, limit) ==
    LET lo == offset + 1
        hi == IF offset + limit < Len(seq) THEN offset + limit ELSE Len(seq)
    IN  [i \in 1..(IF hi >= lo THEN hi - lo + 1 ELSE 0) |-> seq[lo + i - 1]]

\* The default offset taken to be 1, as if pages were numbered from 1.
markets_query_from_one(self, limit, offset) ==
    LET page == skip_take(values(self.markets), unwrap_or(offset, 1),
                          unwrap_or(limit, 50))
    IN  [i \in 1..Len(page) |-> MarketGql_from(page[i])]

\* QueryRoot::markets(limit, offset)
markets_query(self, limit, offset) ==
    LET page == skip_take(values(self.markets), unwrap_or(offset, 0),
                          unwrap_or(limit, 50))
    IN  [i \in 1..Len(page) |-> MarketGql_from(page[i])]

\* The test taking the given string for a zero-based position.
RECURSIVE find_zero_based(_, _)
find_zero_based(seq, id) ==
    IF seq = <<>> THEN <<>>
    ELSE IF Head(seq).id.id > 0 /\ to_string(Head(seq).id.id - 1) = id
         THEN <<Head(seq)>>
    ELSE find_zero_based(Tail(seq), id)

\* Iterator::find: the first element satisfying the test, as an Option.
RECURSIVE find(_, _)
find(seq, id) ==
    IF seq = <<>> THEN <<>>
    ELSE IF to_string(Head(seq).id.id) = id THEN <<Head(seq)>>
    ELSE find(Tail(seq), id)

\* QueryRoot::market(id): matches on the numeric part of the MarketId only.
market_query(self, id) ==
    LET found == find(values(self.markets), id)
    IN  IF found = <<>> THEN <<>> ELSE <<MarketGql_from(found[1])>>

\* Result::unwrap_or_default on the Result of bcs::from_bytes.
unwrap_or_default(result) == IF result.ok THEN result.value ELSE DefaultLedger

\* The service reading a key of its own instead of the contract's.
service_new_other_key(store) ==
    LET read == read_value_bytes(store, "state")
    IN  IF read # <<>> THEN unwrap_or_default(try_from_bytes(read[1]))
        ELSE DefaultLedger

\* ConwayBetsService::new: the state the service serves queries from.
\* read_value is taken to yield the bytes stored under the key, as
\* read_value_bytes does.
service_new(store) ==
    LET read == read_value_bytes(store, STATE_KEY)
    IN  IF read # <<>> THEN unwrap_or_default(try_from_bytes(read[1]))
        ELSE DefaultLedger

\* ------------------------------------- contract.rs: instantiation

\* A market created for the first title of initial_markets.
instantiate_creates_markets(self, argument) ==
    IF argument = <<>> THEN [state |-> self, sent |-> <<>>]
    ELSE LET r == create_market(self, 0, argument[1], "", 0, <<>>)
         IN  [state |-> r.state, sent |-> r.sent]

\* ConwayBetsContract::instantiate: the argument is ignored and the body is
\* a comment. Returns the ledger after the call and the send_message calls
\* it made.
instantiate(self, argument) == [state |-> self, sent |-> <<>>]

\* ------------------------------------- contract.rs: the message handler

\* A handler that adds the amount of a Bet message to the liquidity of the
\* market the message names.
execute_message_applies_bet(self, message) ==
    IF message.type = "Bet" /\ message.market_id \in DOMAIN self.markets
    THEN [state |-> [self EXCEPT
                       !.markets[message.market_id].total_liquidity =
                           @ + message.amount],
          sent |-> <<>>]
    ELSE [state |-> self, sent |-> <<>>]

\* ConwayBetsContract::execute_message: the body is a comment. Returns the
\* ledger after the call and the send_message calls it made.
execute_message(self, message) == [state |-> self, sent |-> <<>>]

\* ------------------------------------------------------- the state machine

VARIABLES
    state,      \* ConwayBetsContract.state of the instance last loaded
    storage,    \* the runtime's key-value store: key -> stored bytes
    pc,         \* "idle": no instance is loaded; "loaded": one is
    call,       \* the entry point that ran last, its arguments and outcome
    emitted,    \* the send_message calls made by the last entry point
    issued,     \* MarketIds assigned by create_market on the loaded instance
    receipts    \* Results returned by place_bet on the loaded instance

vars == <<state, storage, pc, call, emitted, issued, receipts>>

\* InstantiationArgument.initial_markets
InstantiationArgs == { <<>>, <<"T">> }

\* Inbound messages of every variant.
Messages ==
    { InitializeMsg,
      BetMsg(MarketId(context_chain_id, 1), 1, 0, 100),
      SyncStateMsg(MarketId(context_chain_id, 1), [i \in 1..32 |-> 1], 7) }

Positions(self) ==
    LET keys == OwnerKeys(DOMAIN self.user_positions)
    IN  [i \in 1..Len(keys) |-> Len(self.user_positions[keys[i]])]

RECURSIVE Sum(_)
Sum(seq) == IF seq = <<>> THEN 0 ELSE Head(seq) + Sum(Tail(seq))

\* Operations executed on the loaded instance so far.
Calls == Len(issued) + Len(receipts)

\* No instance is loaded. Nothing is stored under any key, or the state key
\* holds bytes that no version of to_bytes modelled here has written.
Init ==
    /\ state = DefaultLedger
    /\ storage \in { EmptyMap, [k \in {STATE_KEY} |-> MalformedBytes] }
    /\ pc = "idle"
    /\ call = [op |-> "none"]
    /\ emitted = <<>>
    /\ issued = <<>>
    /\ receipts = <<>>

\* ConwayBetsContract::load
Load ==
    /\ pc = "idle"
    /\ ~load_panics(storage)
    /\ state' = load(storage)
    /\ pc' = "loaded"
    /\ call' = [op |-> "load", aborted |-> FALSE]
    /\ emitted' = <<>>
    /\ issued' = <<>>
    /\ receipts' = <<>>
    /\ UNCHANGED storage

\* ConwayBetsContract::load on bytes that do not deserialize: expect panics,
\* the call is aborted and no instance exists.
LoadAbort ==
    /\ pc = "idle"
    /\ load_panics(storage)
    /\ call' = [op |-> "load", aborted |-> TRUE]
    /\ UNCHANGED <<state, storage, pc, emitted, issued, receipts>>

\* ConwayBetsService::new followed by handle_query of markets(limit, offset).
\* The service reads the key-value store only, which changes at store only,
\* so its queries are taken between a store and the next load.
QueryMarkets(limits, offsets) ==
    /\ pc = "idle"
    /\ \E limit \in limits, offset \in offsets :
          LET served == service_new(storage)
          IN  call' = [op |-> "query", aborted |-> FALSE, state |-> served,
                       limit |-> limit, offset |-> offset,
                       response |-> markets_query(served, limit, offset)]
    /\ UNCHANGED <<state, storage, pc, emitted, issued, receipts>>

\* The query markets() with neither argument given.
HandleQuery == QueryMarkets({<<>>}, {<<>>})

\* The id strings given to market(id): "0" is never assigned.
IdArgs == { to_string(0), to_string(1), to_string(2) }

\* ConwayBetsService::new followed by handle_query of market(id).
QueryMarket ==
    /\ pc = "idle"
    /\ \E id \in IdArgs :
          LET served == service_new(storage)
          IN  call' = [op |-> "market_query", aborted |-> FALSE,
                       state |-> served, id |-> id,
                       response |-> market_query(served, id)]
    /\ UNCHANGED <<state, storage, pc, emitted, issued, receipts>>

\* ConwayBetsContract::instantiate: runs once, on the instance loaded when
\* the application is created and nothing is stored yet.
Instantiate ==
    /\ pc = "loaded"
    /\ call.op = "load"
    /\ STATE_KEY \notin DOMAIN storage
    /\ \E argument \in InstantiationArgs :
          LET r == instantiate(state, argument)
          IN  /\ state' = r.state
              /\ emitted' = r.sent
              /\ call' = [op |-> "instantiate", argument |-> argument]
    /\ UNCHANGED <<storage, pc, issued, receipts>>

\* ConwayBetsContract::execute_operation, Operation::CreateMarket
ExecuteCreateMarket ==
    /\ pc = "loaded"
    /\ Calls < MaxCalls
    /\ state.next_market_id < MaxMarketId
    /\ \E a \in MarketArgs :
          LET r == create_market(state, a.creator, a.title, a.description,
                                 a.end_time, a.outcomes)
          IN  /\ state' = r.state
              /\ emitted' = r.sent
              /\ issued' = Append(issued, r.market_id)
              /\ call' = [op |-> "create_market", args |-> a,
                          market_id |-> r.market_id, response |-> Unit]
    /\ UNCHANGED <<storage, pc, receipts>>

\* ConwayBetsContract::execute_operation, Operation::PlaceBet. The Result of
\* place_bet is dropped by `let _ =`; the model keeps it in call.result, and
\* what the caller gets in call.response.
ExecutePlaceBet ==
    /\ pc = "loaded"
    /\ Calls < MaxCalls
    /\ Sum(Positions(state)) < MaxPositions
    /\ \E market_id \in MarketIdArgs, b \in BetArgs :
          LET r == place_bet(state, market_id, b.user, b.outcome_index,
                             b.amount)
          IN  /\ state' = r.state
              /\ emitted' = r.sent
              /\ receipts' = Append(receipts, r.result)
              /\ call' = [op |-> "place_bet", market_id |-> market_id,
                          user |-> b.user, outcome_index |-> b.outcome_index,
                          amount |-> b.amount, result |-> r.result,
                          response |-> discard_result(r.result)]
    /\ UNCHANGED <<storage, pc, issued>>

\* ConwayBetsContract::execute_message: the handler's body is empty.
ExecuteMessage ==
    /\ pc = "loaded"
    /\ \E message \in Messages :
          LET r == execute_message(state, message)
          IN  /\ state' = r.state
              /\ emitted' = r.sent
              /\ call' = [op |-> "execute_message", message |-> message]
    /\ UNCHANGED <<storage, pc, issued, receipts>>

\* A resolve_market request, as test_market_resolution issues it. Operation
\* has the variants CreateMarket and PlaceBet only, so the request matches no
\* arm of execute_operation and no code of the ledger runs for it.
ExecuteResolveMarket ==
    /\ pc = "loaded"
    /\ \E market_id \in DOMAIN state.markets, winning_outcome \in {0} :
          /\ market_id = MarketId(context_chain_id, 1)
          /\ call' = [op |-> "resolve_market", market_id |-> market_id,
                      creator |-> state.markets[market_id].creator,
                      winning_outcome |-> winning_outcome]
    /\ emitted' = <<>>
    /\ UNCHANGED <<state, storage, pc, issued, receipts>>

\* ConwayBetsContract::store consumes the instance. The state variable keeps
\* the value that was written; nothing reads it until the next load.
Store ==
    /\ pc = "loaded"
    /\ storage' = store_batch(storage, state)
    /\ pc' = "idle"
    /\ call' = [op |-> "store"]
    /\ emitted' = <<>>
    /\ issued' = <<>>
    /\ receipts' = <<>>
    /\ UNCHANGED state

Next ==
    \/ Load
    \/ LoadAbort
    \/ HandleQuery
    \/ QueryMarket
    \/ Instantiate
    \/ ExecuteCreateMarket
    \/ ExecutePlaceBet
    \/ ExecuteMessage
    \/ ExecuteResolveMarket
    \/ Store

Spec == Init /\ [][Next]_vars

\* ------------------------------------------- the paging queries on their own

\* The ledger after create_market has been called with each element of
\* args in turn, on one instance that started empty.
RECURSIVE Created(_)
Created(args) ==
    IF args = <<>> THEN DefaultLedger
    ELSE LET a == args[Len(args)]
         IN  create_market(Created(SubSeq(args, 1, Len(args) - 1)),
                           a.creator, a.title, a.description, a.end_time,
                           a.outcomes).state

\* Option<usize> arguments of markets(limit, offset).
PageArgs == {<<>>} \cup { <<n>> : n \in 0..MaxPage }

\* An instance that created up to MaxListed markets has just been stored.
QueryInit ==
    /\ \E n \in 0..MaxListed : \E args \in [1..n -> MarketArgs] :
          /\ state = Created(args)
          /\ storage = store_batch(EmptyMap, Created(args))
    /\ pc = "idle"
    /\ call = [op |-> "store"]
    /\ emitted = <<>>
    /\ issued = <<>>
    /\ receipts = <<>>

QueryNext == QueryMarkets(PageArgs, PageArgs)

SpecQuery == QueryInit /\ [][QueryNext]_vars

\* ------------------------------------------------ the order of MarketIds

\* MarketIds of two chains given to the comparison and to the key listing.
OrderIds ==
    { MarketId(c, n) : c \in {context_chain_id, context_chain_id + 1},
                       n \in 1..MaxMarketId }

\* Ord::lt on three MarketIds, pairwise. The comparison reads no state, so
\* it is taken once, right after a load.
CompareIds ==
    /\ pc = "loaded"
    /\ call.op = "load"
    /\ \E a \in OrderIds, b \in OrderIds, c \in OrderIds :
          call' = [op |-> "cmp", a |-> a, b |-> b, c |-> c,
                   ab |-> MarketIdLess(a, b), ba |-> MarketIdLess(b, a),
                   bc |-> MarketIdLess(b, c), ac |-> MarketIdLess(a, c)]
    /\ UNCHANGED <<state, storage, pc, emitted, issued, receipts>>

\* BTreeMap iteration over a map with the given MarketIds as keys, likewise
\* taken right after a load.
ListIds ==
    /\ pc = "loaded"
    /\ call.op = "load"
    /\ \E S \in SUBSET OrderIds :
          call' = [op |-> "keys", set |-> S, listed |-> MarketKeys(S)]
    /\ UNCHANGED <<state, storage, pc, emitted, issued, receipts>>

OrderNext ==
    \/ Load
    \/ ExecuteCreateMarket
    \/ Store
    \/ HandleQuery
    \/ CompareIds
    \/ ListIds

SpecOrder == Init /\ [][OrderNext]_vars

\* ------------------------------------- one operation per invocation

\* The application has been created and nothing is stored.
InvocationInit ==
    /\ state = DefaultLedger
    /\ storage = EmptyMap
    /\ pc = "idle"
    /\ call = [op |-> "none"]
    /\ emitted = <<>>
    /\ issued = <<>>
    /\ receipts = <<>>

\* One invocation for Operation::CreateMarket: load, execute_operation,
\* store, run to completion. issued and receipts here collect what the
\* invocations so far assigned and returned.
InvokeCreateMarket ==
    /\ pc = "idle"
    /\ ~load_panics(storage)
    /\ Calls < MaxCalls
    /\ Len(issued) < MaxMarketId
    /\ \E a \in MarketArgs :
          LET r == create_market(load(storage), a.creator, a.title,
                                 a.description, a.end_time, a.outcomes)
          IN  /\ state' = r.state
              /\ storage' = store_batch(storage, r.state)
              /\ emitted' = r.sent
              /\ issued' = Append(issued, r.market_id)
              /\ call' = [op |-> "create_market", args |-> a,
                          market_id |-> r.market_id, response |-> Unit]
    /\ UNCHANGED <<pc, receipts>>

\* One invocation for Operation::PlaceBet: load, execute_operation, store.
InvokePlaceBet ==
    /\ pc = "idle"
    /\ ~load_panics(storage)
    /\ Calls < MaxCalls
    /\ Sum(Positions(load(storage))) < MaxPositions
    /\ \E market_id \in MarketIdArgs, b \in BetArgs :
          LET r == place_bet(load(storage), market_id, b.user,
                             b.outcome_index, b.amount)
          IN  /\ state' = r.state
              /\ storage' = store_batch(storage, r.state)
              /\ emitted' = r.sent
              /\ receipts' = Append(receipts, r.result)
              /\ call' = [op |-> "place_bet", market_id |-> market_id,
                          user |-> b.user, outcome_index |-> b.outcome_index,
                          amount |-> b.amount, result |-> r.result,
                          response |-> discard_result(r.result)]
    /\ UNCHANGED <<pc, issued>>

\* One invocation for an inbound message: load, execute_message, store.
InvokeMessage ==
    /\ pc = "idle"
    /\ ~load_panics(storage)
    /\ \E message \in Messages :
          LET r == execute_message(load(storage), message)
          IN  /\ state' = r.state
              /\ storage' = store_batch(storage, r.state)
              /\ emitted' = r.sent
              /\ call' = [op |-> "execute_message", message |-> message]
    /\ UNCHANGED <<pc, issued, receipts>>

InvocationNext ==
    \/ InvokeCreateMarket
    \/ InvokePlaceBet
    \/ InvokeMessage

SpecInvocations == InvocationInit /\ [][InvocationNext]_vars

\* ------------------------------------------ the projection of one market

\* Market values given to MarketGql::from: both values of is_resolved, a
\* winner or none, ids of one and of two digits on two chains, and digests
\* with bytes of every shape (0x00, 0x01, 0xab, 0xff).
ProjectionInputs ==
    { [id |-> MarketId(c, n), creator |-> a.creator, title |-> a.title,
       description |-> a.description, end_time |-> a.end_time,
       outcomes |-> a.outcomes, total_liquidity |-> 0,
       is_resolved |-> r, winning_outcome |-> w,
       state_hash |-> [i \in 1..32 |-> b]] :
        c \in {context_chain_id, context_chain_id + 1},
        n \in (1..MaxMarketId) \cup {12},
        a \in MarketArgs, r \in BOOLEAN, w \in {<<>>, <<1>>},
        b \in {0, 1, 171, 255} }

\* MarketGql::from(&market)
Project ==
    /\ pc = "idle"
    /\ \E m \in ProjectionInputs :
          call' = [op |-> "project", market |-> m, gql |-> MarketGql_from(m)]
    /\ UNCHANGED <<state, storage, pc, emitted, issued, receipts>>

ProjectionNext == Project

SpecProjection == InvocationInit /\ [][ProjectionNext]_vars

\* ------------------------------------------ place_bet, statement by statement

\* An instance has just been loaded from a store holding up to MaxListed
\* markets.
StepsInit ==
    /\ \E n \in 0..MaxListed : \E args \in [1..n -> MarketArgs] :
          /\ storage = store_batch(EmptyMap, Created(args))
          /\ state = load(store_batch(EmptyMap, Created(args)))
    /\ pc = "loaded"
    /\ call = [op |-> "load", aborted |-> FALSE]
    /\ emitted = <<>>
    /\ issued = <<>>
    /\ receipts = <<>>

\* self.markets.get(&market_id).ok_or("MarketNotFound")?.state_hash
BetLookup ==
    /\ pc = "loaded"
    /\ Calls < MaxCalls
    /\ Sum(Positions(state)) < MaxPositions
    /\ \E market_id \in MarketIdArgs, b \in BetArgs :
          LET found == get_state_hash(state.markets, market_id)
              args == [op |-> "place_bet", market_id |-> market_id,
                       user |-> b.user, outcome_index |-> b.outcome_index,
                       amount |-> b.amount]
          IN  IF found = <<>>
              THEN /\ pc' = "loaded"
                   /\ call' = [result |-> Err("MarketNotFound")] @@ args
                   /\ receipts' = Append(receipts, Err("MarketNotFound"))
              ELSE /\ pc' = "lock_funds"
                   /\ call' = [state_hash |-> found[1]] @@ args
                   /\ receipts' = receipts
    /\ emitted' = <<>>
    /\ UNCHANGED <<state, storage, issued>>

\* self.lock_funds(user, amount).await?
BetLockFunds ==
    /\ pc = "lock_funds"
    /\ IF lock_funds(call.user, call.amount).ok
       THEN /\ pc' = "send_message"
            /\ UNCHANGED <<call, receipts>>
       ELSE /\ pc' = "loaded"
            /\ call' = [result |-> Err("lock_funds")] @@ call
            /\ receipts' = Append(receipts, Err("lock_funds"))
    /\ UNCHANGED <<state, storage, emitted, issued>>

\* self.send_message(market_id.chain_id, ConwayBetsMessage::Bet(bet_message))
BetSendMessage ==
    /\ pc = "send_message"
    /\ emitted' = Append(emitted,
                         Sent(call.market_id.chain_id,
                              BetMsg(call.market_id, call.user,
                                     call.outcome_index, call.amount)))
    /\ pc' = "push"
    /\ UNCHANGED <<state, storage, call, issued, receipts>>

\* self.user_positions.entry(user).or_insert(Vec::new()).push(position)
BetPushPosition ==
    /\ pc = "push"
    /\ state' = [state EXCEPT !.user_positions =
                   push_position(@, call.user,
                                 UserPosition(call.market_id,
                                              call.outcome_index, call.amount,
                                              call.state_hash))]
    /\ pc' = "increment"
    /\ UNCHANGED <<storage, call, emitted, issued, receipts>>

\* self.next_bet_id += 1; Ok(Receipt::new(self.next_bet_id, Finalized))
BetReturn ==
    /\ pc = "increment"
    /\ LET r == next_receipt(state.next_bet_id)
       IN  /\ state' = [state EXCEPT !.next_bet_id = r.next_bet_id]
           /\ call' = [result |-> Ok(r.receipt)] @@ call
           /\ receipts' = Append(receipts, Ok(r.receipt))
    /\ pc' = "loaded"
    /\ UNCHANGED <<storage, emitted, issued>>

StepsNext ==
    \/ BetLookup
    \/ BetLockFunds
    \/ BetSendMessage
    \/ BetPushPosition
    \/ BetReturn

SpecSteps == StepsInit /\ [][StepsNext]_vars

\* ------------------------------------------------------------- properties

\* The position list recorded for an account; empty when it has no entry.
PositionsOf(self, user) ==
    IF user \in DOMAIN self.user_positions THEN self.user_positions[user]
    ELSE <<>>

IsPrefix(s, t) == Len(s) <= Len(t) /\ SubSeq(t, 1, Len(s)) = s

\* C1: on one loaded instance (no store/load in between) the k-th
\* create_market call is assigned integer k, so the MarketIds assigned are
\* pairwise distinct, and the counter never decreases while the instance
\* lives.
C1_IdsDistinctWithinSession ==
    [][ /\ \A k \in 1..Len(issued') :
              issued'[k] = MarketId(context_chain_id, k)
        /\ \A i, j \in 1..Len(issued') : i # j => issued'[i] # issued'[j]
        /\ (pc = "loaded" /\ pc' = "loaded")
              => state'.next_market_id >= state.next_market_id ]_vars

C1_Witness ==
    /\ pc = "loaded"
    /\ call.op = "create_market"
    /\ Len(issued) >= 2

\* C2: place_bet with a market_id that is not a key of markets returns the
\* MarketNotFound error, leaves markets, every position list and both
\* counters as they were, and emits no message.
C2_MissingMarketFailsCleanly ==
    [][ (call'.op = "place_bet" /\ call'.market_id \notin DOMAIN state.markets)
          => /\ ~call'.result.ok
             /\ call'.result.err = "MarketNotFound"
             /\ state' = state
             /\ emitted' = <<>> ]_vars

C2_Witness ==
    /\ call.op = "place_bet"
    /\ ~call.result.ok
    /\ call.market_id \notin DOMAIN state.markets
    /\ DOMAIN state.markets # {}
    /\ DOMAIN state.user_positions # {}

\* C3: once a market exists under a MarketId, every later state holds a
\* market under that id with the same creator, title, description, end_time
\* and outcomes.
C3_MarketsNeverReplaced ==
    [][ \A k \in DOMAIN state.markets :
            /\ k \in DOMAIN state'.markets
            /\ state'.markets[k].creator = state.markets[k].creator
            /\ state'.markets[k].title = state.markets[k].title
            /\ state'.markets[k].description = state.markets[k].description
            /\ state'.markets[k].end_time = state.markets[k].end_time
            /\ state'.markets[k].outcomes = state.markets[k].outcomes ]_vars

\* C4: next_market_id is 0 right after a load, and the first create_market
\* on a loaded instance is assigned integer 1.
C4_CounterRestartsOnLoad ==
    /\ call.op = "load" => state.next_market_id = 0
    /\ (call.op = "create_market" /\ Len(issued) = 1)
          => call.market_id = MarketId(context_chain_id, 1)

\* The collision: the id assigned first after a reload is the key of a
\* market that was stored before the reload.
C4_Witness ==
    /\ call.op = "create_market"
    /\ Len(issued) = 1
    /\ STATE_KEY \in DOMAIN storage
    /\ \E i \in 1..Len(storage[STATE_KEY].markets) :
          storage[STATE_KEY].markets[i][1] = call.market_id

\* C5: a load that follows a store yields the markets map and the
\* user_positions map that were stored, with both counters 0.
C5_StoreLoadRoundTrip ==
    [][ (pc = "idle" /\ call.op = "store" /\ pc' = "loaded")
          => /\ state'.markets = state.markets
             /\ state'.user_positions = state.user_positions
             /\ state'.next_market_id = 0
             /\ state'.next_bet_id = 0 ]_vars

C5_Witness ==
    /\ call.op = "load"
    /\ Cardinality(DOMAIN state.markets) = 2
    /\ \E u \in DOMAIN state.user_positions : Len(state.user_positions[u]) = 2

\* C6: one create_market on an empty ledger leaves the assigned MarketId in
\* markets, and markets() returns exactly one entry, with the given title,
\* total_liquidity 0, is_resolved false and winning_outcome None.
C6_FirstMarketListed ==
    [][ (pc = "loaded" /\ state = DefaultLedger /\ call'.op = "create_market")
          => LET listed == markets_query(state', <<>>, <<>>)
             IN  /\ call'.market_id \in DOMAIN state'.markets
                 /\ state'.markets[call'.market_id].total_liquidity = 0
                 /\ Len(listed) = 1
                 /\ listed[1].title = call'.args.title
                 /\ listed[1].total_liquidity = to_string(0)
                 /\ listed[1].is_resolved = FALSE
                 /\ listed[1].winning_outcome = <<>> ]_vars

C6_Witness ==
    /\ call.op = "create_market"
    /\ STATE_KEY \notin DOMAIN storage
    /\ Len(issued) = 1
    /\ Len(markets_query(state, <<>>, <<>>)) = 1

\* C7: a successful place_bet(M, U, i, a) appends exactly one position
\* (M, i, a) to the end of U's list, whatever the list already holds.
C7_BetAppendsOnePosition ==
    [][ (call'.op = "place_bet" /\ call'.result.ok)
          => LET old == PositionsOf(state, call'.user)
                 new == PositionsOf(state', call'.user)
             IN  /\ Len(new) = Len(old) + 1
                 /\ SubSeq(new, 1, Len(old)) = old
                 /\ new[Len(new)].market_id = call'.market_id
                 /\ new[Len(new)].outcome_index = call'.outcome_index
                 /\ new[Len(new)].amount = call'.amount ]_vars

\* Two identical calls have left two equal positions.
C7_Witness ==
    /\ call.op = "place_bet"
    /\ call.result.ok
    /\ Len(PositionsOf(state, call.user)) = 2
    /\ PositionsOf(state, call.user)[1] = PositionsOf(state, call.user)[2]

\* C8: in every step each account's position list before the step is a
\* prefix of its list after the step.
C8_PositionsAppendOnly ==
    [][ \A u \in DOMAIN state.user_positions :
            /\ u \in DOMAIN state'.user_positions
            /\ IsPrefix(state.user_positions[u], state'.user_positions[u]) ]_vars

\* A list that was stored and loaded back has been extended.
C8_Witness ==
    /\ call.op = "place_bet"
    /\ call.result.ok
    /\ Len(receipts) = 1
    /\ Len(PositionsOf(state, call.user)) = 2

\* C9: every recorded position's market_id is a key of markets.
C9_PositionsReferenceMarkets ==
    \A u \in DOMAIN state.user_positions :
        \A i \in 1..Len(state.user_positions[u]) :
            state.user_positions[u][i].market_id \in DOMAIN state.markets

C9_Witness ==
    \E u \in DOMAIN state.user_positions :
        \E i \in 1..Len(state.user_positions[u]) :
            state.user_positions[u][i].market_id = MarketId(context_chain_id, 2)

\* The successful calls among the first n place_bet calls since load.
Successes(n) == Cardinality({ j \in 1..n : receipts[j].ok })

\* C10: the k-th successful place_bet since load returns Receipt(k,
\* Finalized), and failed calls take no id: the counter equals the number
\* of successful calls.
C10_ReceiptIdsCount ==
    /\ \A n \in 1..Len(receipts) :
          receipts[n].ok
            => receipts[n].receipt = Receipt(Successes(n), "Finalized")
    /\ pc = "loaded" => state.next_bet_id = Successes(Len(receipts))

\* Success, failure, success: the third call gets id 2.
C10_Witness ==
    /\ pc = "loaded"
    /\ Len(receipts) = 3
    /\ receipts[1].ok
    /\ ~receipts[2].ok
    /\ receipts[3].ok

\* The amounts of the positions, of every account, that reference a market.
RECURSIVE StakedIn(_, _)
StakedIn(positions, market_id) ==
    IF positions = <<>> THEN 0
    ELSE (IF Head(positions).market_id = market_id
          THEN Head(positions).amount ELSE 0)
         + StakedIn(Tail(positions), market_id)

RECURSIVE StakedOn(_, _, _)
StakedOn(self, users, market_id) ==
    IF users = <<>> THEN 0
    ELSE StakedIn(self.user_positions[Head(users)], market_id)
         + StakedOn(self, Tail(users), market_id)

\* C11: after any successful place_bet calls on a market its
\* total_liquidity is at least the sum of the amounts staked on it.
C11_LiquidityCoversStakes ==
    \A k \in DOMAIN state.markets :
        state.markets[k].total_liquidity
            >= StakedOn(state, OwnerKeys(DOMAIN state.user_positions), k)

\* C12: after a Bet message with amount > 0 for a market that exists here
\* has been processed, that market's total_liquidity is greater than zero.
C12_BetMessageAddsLiquidity ==
    (/\ call.op = "execute_message"
     /\ call.message.type = "Bet"
     /\ call.message.amount > 0
     /\ call.message.market_id \in DOMAIN state.markets)
        => state.markets[call.message.market_id].total_liquidity > 0

\* C13: after the creator has resolved a market with winning outcome w, the
\* market shows is_resolved = true and winning_outcome = Some(w).
C13_ResolveMarksMarket ==
    call.op = "resolve_market"
        => /\ state.markets[call.market_id].is_resolved
           /\ state.markets[call.market_id].winning_outcome
                = <<call.winning_outcome>>

\* C14: a successful place_bet on a market changes that market's state_hash.
C14_BetChangesStateHash ==
    [][ (call'.op = "place_bet" /\ call'.result.ok)
          => state'.markets[call'.market_id].state_hash
               # state.markets[call'.market_id].state_hash ]_vars

\* C15: after a SyncState{market_id, state_hash, block_height} message has
\* been processed, the hash held here for market_id is the hash that was
\* sent, and it changes only when another SyncState is processed.
C15_SyncStateAdoptsHash ==
    [][ /\ (call'.op = "execute_message" /\ call'.message.type = "SyncState")
             => /\ call'.message.market_id \in DOMAIN state'.markets
                /\ state'.markets[call'.message.market_id].state_hash
                     = call'.message.state_hash
        /\ \A k \in DOMAIN state.markets \cap DOMAIN state'.markets :
               state'.markets[k].state_hash # state.markets[k].state_hash
                 => (call'.op = "execute_message"
                     /\ call'.message.type = "SyncState") ]_vars

\* C16: a PlaceBet operation on a market that does not exist returns () to
\* the caller, neither the error nor a Receipt; and when it is the only
\* operation run on an instance, the ledger stored afterwards is the ledger
\* that was loaded.
C16_DispatchSwallowsError ==
    [][ /\ (call'.op = "place_bet"
            /\ call'.market_id \notin DOMAIN state.markets)
             => call'.response = Unit
        /\ (/\ pc = "loaded" /\ pc' = "idle"
            /\ call.op = "place_bet" /\ ~call.result.ok
            /\ issued = <<>> /\ Len(receipts) = 1)
             => /\ read_value_bytes(storage', STATE_KEY) # <<>>
                /\ from_bytes(read_value_bytes(storage', STATE_KEY)[1])
                     = load(storage) ]_vars

\* The failing PlaceBet was the only operation and the instance was stored.
C16_Witness ==
    /\ call.op = "place_bet"
    /\ ~call.result.ok
    /\ call.response = Unit
    /\ issued = <<>>
    /\ Len(receipts) = 1
    /\ DOMAIN state.markets # {}

\* C17: with nothing stored under the state key, the contract's load and
\* the service both start from the empty default ledger; and store leaves
\* the whole ledger under that one key.
C17_AbsentKeyGivesDefault ==
    /\ (call.op = "load" /\ ~call.aborted /\ STATE_KEY \notin DOMAIN storage)
         => state = DefaultLedger
    /\ (call.op = "query" /\ STATE_KEY \notin DOMAIN storage)
         => call.state = DefaultLedger
    /\ call.op = "store"
         => /\ DOMAIN storage = {STATE_KEY}
            /\ from_bytes(storage[STATE_KEY]).markets = state.markets
            /\ from_bytes(storage[STATE_KEY]).user_positions
                 = state.user_positions

\* The service has answered markets() while nothing was stored.
C17_Witness ==
    /\ call.op = "query"
    /\ STATE_KEY \notin DOMAIN storage
    /\ call.response = <<>>

\* C18: when the bytes under the state key do not deserialize, every entry
\* point that loads the state aborts the call.
C18_MalformedBlobAborts ==
    (/\ call.op \in {"load", "query"}
     /\ load_panics(storage))
        => call.aborted

\* C19: markets(limit, offset), limit defaulting to 50 and offset to 0,
\* returns the projections of the markets at positions offset + 1 ..
\* offset + limit of the ascending MarketId order, fewer where the sequence
\* ends and none past its end; over three markets created in order,
\* markets(1, 1) is exactly the second one created.
C19_MarketsPage ==
    call.op = "query"
      => LET count == Cardinality(DOMAIN state.markets)
             off == IF call.offset = <<>> THEN 0 ELSE call.offset[1]
             lim == IF call.limit = <<>> THEN 50 ELSE call.limit[1]
             n == IF off >= count THEN 0
                  ELSE IF lim < count - off THEN lim ELSE count - off
             kth(k) == state.markets[MarketId(context_chain_id, k)]
         IN  /\ Len(call.response) = n
             /\ \A i \in 1..n :
                   call.response[i] = MarketGql_from(kth(off + i))
             /\ (count = 3 /\ call.limit = <<1>> /\ call.offset = <<1>>)
                   => call.response = <<MarketGql_from(kth(2))>>

\* markets(1, 1) over the markets "T", "U", "T" has returned "U".
C19_Witness ==
    /\ call.op = "query"
    /\ call.limit = <<1>>
    /\ call.offset = <<1>>
    /\ Cardinality(DOMAIN state.markets) = 3
    /\ state.markets[MarketId(context_chain_id, 1)].title = "T"
    /\ state.markets[MarketId(context_chain_id, 3)].title = "T"
    /\ Len(call.response) = 1
    /\ call.response[1].title = "U"

\* ConwayBets::send_message: the body is empty, so a call hands the runtime
\* no message.
send_message(dest, msg) == <<>>

\* The messages a sequence of send_message calls hands to the runtime.
RECURSIVE Outbox(_)
Outbox(calls) ==
    IF calls = <<>> THEN <<>>
    ELSE send_message(calls[1].dest, calls[1].msg) \o Outbox(Tail(calls))

\* C20: every create_market call emits exactly one Initialize message,
\* addressed to the chain id of the MarketId it assigned, and the market is
\* in the ledger when the message goes out.
C20_CreateMarketEmitsInitialize ==
    call.op = "create_market"
      => /\ Outbox(emitted) = <<Sent(call.market_id.chain_id, InitializeMsg)>>
         /\ call.market_id \in DOMAIN state.markets

\* C21: every successful place_bet emits exactly one Bet message, addressed
\* to market_id.chain_id, carrying the market_id, user, outcome_index and
\* amount of the call.
C21_BetEmitsBetMessage ==
    (call.op = "place_bet" /\ call.result.ok)
      => Outbox(emitted)
           = <<Sent(call.market_id.chain_id,
                    BetMsg(call.market_id, call.user, call.outcome_index,
                           call.amount))>>

\* C22: serving markets() or market(id) never changes the persisted ledger,
\* and the answer is the projection of exactly the markets of the ledger the
\* contract stored last: all of them in key order for markets(), the one
\* with the given numeric id, or none, for market(id).
C22_QueriesReadStoredSnapshot ==
    [][ /\ call'.op \in {"query", "market_query"} => storage' = storage
        /\ call'.op = "query"
             => LET keys == MarketKeys(DOMAIN state.markets)
                IN  call'.response
                      = [i \in 1..Len(keys) |->
                           MarketGql_from(state.markets[keys[i]])]
        /\ call'.op = "market_query"
             => LET hits == { k \in DOMAIN state.markets :
                                to_string(k.id) = call'.id }
                IN  call'.response
                      = IF hits = {} THEN <<>>
                        ELSE <<MarketGql_from(
                                 state.markets[CHOOSE k \in hits : TRUE])>>
      ]_vars

\* market("2") has been answered with the second of two stored markets.
C22_Witness ==
    /\ call.op = "market_query"
    /\ call.id = to_string(2)
    /\ STATE_KEY \in DOMAIN storage
    /\ Cardinality(DOMAIN state.markets) = 2
    /\ call.response # <<>>
    /\ call.response[1].id = to_string(2)
    /\ call.response[1].title = state.markets[MarketId(context_chain_id, 2)].title

C24_CreateMarketStoresArguments ==
    call.op = "create_market"
      => /\ call.response = Unit
         /\ call.market_id \in DOMAIN state.markets
         /\ LET m == state.markets[call.market_id]
            IN  /\ m.id = call.market_id
                /\ m.creator = call.args.creator
                /\ m.title = call.args.title
                /\ m.description = call.args.description
                /\ m.end_time = call.args.end_time
                /\ m.outcomes = call.args.outcomes

\* A second market titled "U", with no outcomes and end_time 0, has been
\* created next to one of the same title.
C24_Witness ==
    /\ call.op = "create_market"
    /\ call.args.outcomes = <<>>
    /\ call.args.end_time = 0
    /\ call.market_id = MarketId(context_chain_id, 2)
    /\ DOMAIN state.markets
         = {MarketId(context_chain_id, 1), MarketId(context_chain_id, 2)}
    /\ \A k \in DOMAIN state.markets : state.markets[k].title = "U"

\* The position of the call in progress is in the caller's list.
PositionRecorded ==
    /\ call.user \in DOMAIN state.user_positions
    /\ \E i \in 1..Len(state.user_positions[call.user]) :
          state.user_positions[call.user][i]
            = UserPosition(call.market_id, call.outcome_index, call.amount,
                           call.state_hash)

\* C25: inside place_bet the Bet message is emitted after the lookup and the
\* fund lock and before the position is appended and the bet id advanced:
\* between the send and the append the message is out and the position is
\* not recorded, and from the append on both are there.
C25_BetMessagePrecedesPosition ==
    /\ pc \in {"lock_funds", "send_message"} => Outbox(emitted) = <<>>
    /\ pc \in {"push", "increment"}
         => Outbox(emitted)
              = <<Sent(call.market_id.chain_id,
                       BetMsg(call.market_id, call.user, call.outcome_index,
                              call.amount))>>
    /\ pc = "increment" => PositionRecorded

C29_BetCounterRestartsOnLoad ==
    /\ (call.op = "load" /\ ~call.aborted) => state.next_bet_id = 0
    /\ (call.op = "place_bet" /\ call.result.ok
          /\ Successes(Len(receipts)) = 1)
         => call.result.receipt.id = 1

\* With one position already stored, the first successful bet since the
\* reload has been given the receipt id 1 again.
C29_Witness ==
    /\ call.op = "place_bet"
    /\ call.result.ok
    /\ Successes(Len(receipts)) = 1
    /\ call.result.receipt.id = 1
    /\ STATE_KEY \in DOMAIN storage
    /\ storage[STATE_KEY] # MalformedBytes
    /\ Len(storage[STATE_KEY].user_positions) = 1
    /\ Sum(Positions(state)) = 2

\* C30: MarketIds are totally ordered, by chain id first and by the integer
\* among ids of one chain; a map's keys, and so the markets listing, come in
\* that ascending order on every call; and the markets created on one loaded
\* instance are listed in the order they were created.
C30_MarketIdOrder ==
    /\ call.op = "cmp"
         => /\ (call.ab /\ ~call.ba /\ call.a # call.b)
                 \/ (~call.ab /\ call.ba /\ call.a # call.b)
                 \/ (~call.ab /\ ~call.ba /\ call.a = call.b)
            /\ (call.ab /\ call.bc) => call.ac
            /\ call.a.chain_id < call.b.chain_id => call.ab
            /\ call.a.chain_id = call.b.chain_id
                 => (call.ab <=> call.a.id < call.b.id)
    /\ call.op = "keys"
         => /\ Len(call.listed) = Cardinality(call.set)
            /\ { call.listed[i] : i \in 1..Len(call.listed) } = call.set
            /\ \A i \in 1..Len(call.listed) : \A j \in 1..Len(call.listed) :
                  i < j
                    => \/ call.listed[i].chain_id < call.listed[j].chain_id
                       \/ /\ call.listed[i].chain_id = call.listed[j].chain_id
                          /\ call.listed[i].id < call.listed[j].id
    /\ call.op = "query"
         => /\ Len(call.response) = Cardinality(DOMAIN state.markets)
            /\ \A i \in 1..Len(call.response) :
                  call.response[i]
                    = MarketGql_from(state.markets[MarketId(context_chain_id, i)])
    /\ pc = "loaded"
         => LET listed == values(state.markets)
                mine == SelectSeq(listed,
                                  LAMBDA m : \E i \in 1..Len(issued) :
                                                issued[i] = m.id)
            IN  /\ Len(mine) = Len(issued)
                /\ \A i \in 1..Len(issued) : mine[i].id = issued[i]

\* Two markets created on one instance have been stored and listed.
C30_Witness ==
    /\ call.op = "query"
    /\ Len(call.response) = 2
    /\ call.response[1].id = to_string(1)
    /\ call.response[2].id = to_string(2)

\* C31: market(id) returns the projection of the market whose integer id in
\* decimal is the given string and none when there is no such market; all
\* markets are on the stub chain, so at most one market matches.
C31_MarketByIdString ==
    call.op = "market_query"
      => LET hits == { k \in DOMAIN state.markets :
                         to_string(k.id) = call.id }
         IN  /\ \A k \in DOMAIN state.markets :
                    k.chain_id = context_chain_id
             /\ Cardinality(hits) <= 1
             /\ hits = {} => call.response = <<>>
             /\ \A k \in hits :
                    /\ call.response = <<MarketGql_from(state.markets[k])>>
                    /\ call.response[1].id = call.id

\* market("1") has been answered from a stored ledger of two markets.
C31_Witness ==
    /\ call.op = "market_query"
    /\ call.id = <<"1">>
    /\ Cardinality(DOMAIN state.markets) = 2
    /\ Len(call.response) = 1
    /\ call.response[1].id = <<"1">>

\* C32: with one operation per invocation (load, execute, store), no bet is
\* lost: a successful PlaceBet invocation adds its position to the stored
\* list of its user and leaves the other stored lists alone, so the stored
\* positions are as many as the successful invocations, and when those were
\* made by as many distinct users each of them has exactly one.
C32_NoBetLostAcrossInvocations ==
    /\ [](LET stored == load(storage)
          IN  /\ Sum(Positions(stored)) = Successes(Len(receipts))
              /\ Cardinality(DOMAIN stored.user_positions)
                   = Successes(Len(receipts))
                   => \A u \in DOMAIN stored.user_positions :
                          Len(stored.user_positions[u]) = 1)
    /\ [][ (call'.op = "place_bet" /\ call'.result.ok)
             => LET before == load(storage)
                    after == load(storage')
                IN  /\ Len(PositionsOf(after, call'.user))
                         = Len(PositionsOf(before, call'.user)) + 1
                    /\ IsPrefix(PositionsOf(before, call'.user),
                                PositionsOf(after, call'.user))
                    /\ \A u \in DOMAIN before.user_positions \ {call'.user} :
                           PositionsOf(after, u) = PositionsOf(before, u)
         ]_vars

\* Two invocations by the users 1 and 2 have succeeded and the stored ledger
\* holds one position for each.
C32_Witness ==
    /\ Successes(Len(receipts)) = 2
    /\ DOMAIN load(storage).user_positions = {1, 2}
    /\ Len(load(storage).user_positions[1]) = 1
    /\ Len(load(storage).user_positions[2]) = 1

C34_IdsAreOneToCounter ==
    (pc = "loaded" /\ storage = EmptyMap)
      => /\ { k.id : k \in DOMAIN state.markets } = 1..state.next_market_id
         /\ Cardinality(DOMAIN state.markets) = state.next_market_id
         /\ state.next_market_id = Len(issued)

\* Two markets have been created on an instance that started empty.
C34_Witness ==
    /\ pc = "loaded"
    /\ storage = EmptyMap
    /\ call.op = "create_market"
    /\ state.next_market_id = 2
    /\ Len(issued) = 2

\* C35: instantiate changes nothing: after it, whatever initial_markets
\* holds, the ledger is the empty one it was loaded as, no market has been
\* created from the argument, nothing is stored and nothing has been sent.
C35_InstantiateChangesNothing ==
    call.op = "instantiate"
      => /\ state.markets = EmptyMap
         /\ state.user_positions = EmptyMap
         /\ state.next_market_id = 0
         /\ state.next_bet_id = 0
         /\ storage = EmptyMap
         /\ emitted = <<>>
         /\ Outbox(emitted) = <<>>

\* The application has been instantiated with one initial market title.
C35_Witness ==
    /\ call.op = "instantiate"
    /\ call.argument = <<"T">>
    /\ pc = "loaded"

\* C36: the projection of a market carries its title, description,
\* end_time, outcomes, is_resolved and winning_outcome unchanged, has as id
\* the decimal rendering of the integer part of the MarketId alone, renders
\* state_hash as 64 lowercase hex characters, two per byte, and has
\* created_at = 0.
C36_ProjectionFields ==
    call.op = "project"
      => LET m == call.market
             g == call.gql
             dec == <<"0", "1", "2", "3", "4", "5", "6", "7", "8", "9">>
             hex == <<"0", "1", "2", "3", "4", "5", "6", "7", "8", "9",
                      "a", "b", "c", "d", "e", "f">>
         IN  /\ g.title = m.title
             /\ g.description = m.description
             /\ g.end_time = m.end_time
             /\ g.outcomes = m.outcomes
             /\ g.is_resolved = m.is_resolved
             /\ g.winning_outcome = m.winning_outcome
             /\ g.id = IF m.id.id < 10 THEN <<dec[m.id.id + 1]>>
                       ELSE <<dec[(m.id.id \div 10) + 1],
                              dec[(m.id.id % 10) + 1]>>
             /\ Len(g.state_hash) = 64
             /\ \A i \in 1..32 :
                    /\ g.state_hash[2 * i - 1]
                         = hex[(m.state_hash[i] \div 16) + 1]
                    /\ g.state_hash[2 * i] = hex[(m.state_hash[i] % 16) + 1]
             /\ g.created_at = 0

\* A resolved market with id 12 on another chain and a digest of 0xab bytes
\* has been projected.
C36_Witness ==
    /\ call.op = "project"
    /\ call.market.id = MarketId(context_chain_id + 1, 12)
    /\ call.market.is_resolved
    /\ call.market.winning_outcome = <<1>>
    /\ call.market.state_hash[1] = 171
    /\ call.gql.id = <<"1", "2">>
    /\ call.gql.state_hash[1] = "a"
    /\ call.gql.state_hash[2] = "b"

=============================================================================
